---- MODULE Spec2Model ----
(***************************************************************************)
(* A model of the three client/server behaviours of the weldingengineer   *)
(* site: the search widget of js/app.js (catalog load + filteredResults),  *)
(* the clipboard copy button of js/codes.js, and the HTTPS redirect rule   *)
(* of .htaccess.  Each component has its own specification                 *)
(* (Spec, CopySpec, RedirectSpec); the variables of the other components   *)
(* stay at their initial values.                                           *)
(*                                                                         *)
(* A JavaScript string is a sequence of characters.  The characters are    *)
(* "a" and "A" (a cased ASCII pair), " " (white space), and the Greek      *)
(* sigma in its three forms: "SIGMA" (U+03A3, capital), "sigma" (U+03C3,   *)
(* small) and "fsigma" (U+03C2, small final).                              *)
(***************************************************************************)
EXTENDS Integers, Sequences, FiniteSets, TLC

VARIABLES
  \* js/app.js, the #app view model
  query,      \* data.query: the text of the search input
  data,       \* data.data: the catalog
  pc,         \* where the promise chain of created() stands
  err,        \* the rejection travelling down the chain to .catch
  console,    \* what app.js wrote with console.log / console.error
  fetches,    \* number of fetch('js/pages.json') calls issued
  response,   \* the status class of the response received, if any
  jsonCalls,  \* number of response.json() calls
  \* js/codes.js
  hasClipboard, \* navigator.clipboard is defined in this runtime
  ops,          \* one record per click on #copyButton
  alerts,       \* the alert() boxes shown, in order
  copyConsole,  \* what codes.js wrote with console.error
  uncaught,     \* clicks whose handler threw out of the listener
  \* .htaccess
  req,        \* the request being served
  resp,       \* the answer of the server to req
  hops        \* redirects the client has followed for this navigation

searchVars == <<query, data, pc, err, console, fetches, response, jsonCalls>>
copyVars == <<hasClipboard, ops, alerts, copyConsole, uncaught>>
redirectVars == <<req, resp, hops>>
vars == <<searchVars, copyVars, redirectVars>>

----------------------------------------------------------------------------
(* Bounds *)
MaxQueryLen == 2
MaxCatalog == 2
MaxClicks == 3
MaxPathLen == 2
MaxHops == 3

----------------------------------------------------------------------------
(* Strings *)

Alphabet == {"a", "A", " ", "SIGMA", "sigma", "fsigma"}
WhiteSpace == {" "}
Cased == {"a", "A", "SIGMA", "sigma", "fsigma"}

\* String.prototype.trim: strips white space from both ends.
RECURSIVE TrimStart(_)
TrimStart(s) ==
  IF s # <<>> /\ Head(s) \in WhiteSpace THEN TrimStart(Tail(s)) ELSE s

RECURSIVE TrimEnd(_)
TrimEnd(s) ==
  IF s # <<>> /\ s[Len(s)] \in WhiteSpace
    THEN TrimEnd(SubSeq(s, 1, Len(s) - 1))
    ELSE s

Trim(s) == TrimEnd(TrimStart(s))

\* String.prototype.toLowerCase (ECMA-262 22.1.3.28): the locale-insensitive
\* Unicode default case conversion, including the context-sensitive mapping
\* of SpecialCasing.txt (Final_Sigma): a capital sigma that
\* follows a cased letter and is not followed by one lowers to the final
\* form, any other capital sigma to the plain small sigma.
FinalSigma(s, i) ==
  /\ i > 1 /\ s[i - 1] \in Cased
  /\ ~(i < Len(s) /\ s[i + 1] \in Cased)

LowerAt(s, i) ==
  CASE s[i] = "A" -> "a"
    [] s[i] = "SIGMA" -> IF FinalSigma(s, i) THEN "fsigma" ELSE "sigma"
    [] OTHER -> s[i]

ToLowerCase(s) == [i \in 1..Len(s) |-> LowerAt(s, i)]

\* String.prototype.includes: t occurs in s at some offset.
Includes(s, t) ==
  \E k \in 0..(Len(s) - Len(t)) : SubSeq(s, k + 1, k + Len(t)) = t

----------------------------------------------------------------------------
(* The catalog served at js/pages.json: an array of {title, description}. *)

Pool ==
  { [title |-> <<"A", "a">>,       description |-> <<" ">>],
    [title |-> <<" ">>,            description |-> <<"a", " ", "A">>],
    [title |-> <<"A", "SIGMA">>,   description |-> <<>>],
    [title |-> <<"sigma">>,        description |-> <<"a", "fsigma">>] }

SeqsUpTo(S, n) == UNION { [1..k -> S] : k \in 0..n }

Catalogs == SeqsUpTo(Pool, MaxCatalog)
Queries == SeqsUpTo(Alphabet, MaxQueryLen)

----------------------------------------------------------------------------
(* js/app.js: computed filteredResults *)

Matches(item, q) ==
  \/ Includes(ToLowerCase(item.title), ToLowerCase(q))
  \/ Includes(ToLowerCase(item.description), ToLowerCase(q))

\* Faulty variants of Filter: the emptiness test without trim(), the match
\* on the trimmed query, and a scan that starts at the second match.
FilterUntrimmed(C, q) ==
  IF q = <<>>
    THEN <<>>
    ELSE SelectSeq(C, LAMBDA item : Matches(item, q))

FilterTrimmed(C, q) ==
  IF Trim(q) = <<>>
    THEN <<>>
    ELSE SelectSeq(C, LAMBDA item : Matches(item, Trim(q)))

FilterSkipsFirst(C, q) ==
  IF Trim(q) = <<>> \/ SelectSeq(C, LAMBDA item : Matches(item, q)) = <<>>
    THEN <<>>
    ELSE Tail(SelectSeq(C, LAMBDA item : Matches(item, q)))

Filter(C, q) ==
  IF Trim(q) = <<>>
    THEN <<>>
    ELSE SelectSeq(C, LAMBDA item : Matches(item, q))

filteredResults == Filter(data, query)

----------------------------------------------------------------------------
(* js/app.js: the #app view model and the promise chain of created() *)

SearchIdle ==
  /\ query = <<>>
  /\ data = <<>>
  /\ pc = "new"
  /\ err = "none"
  /\ console = <<>>
  /\ fetches = 0
  /\ response = "none"
  /\ jsonCalls = 0

\* created(): issues the fetch; the chain is now waiting for the response.
Created ==
  /\ pc = "new"
  /\ fetches' = fetches + 1
  /\ pc' = "fetching"
  /\ UNCHANGED <<query, data, err, console, response, jsonCalls>>
  /\ UNCHANGED <<copyVars, redirectVars>>

\* The input event of the search box: v-model assigns the edited text to
\* query (one character typed at the end, or the last one deleted).
Edits(q) ==
  { Append(q, c) : c \in IF Len(q) < MaxQueryLen THEN Alphabet ELSE {} }
    \cup (IF q # <<>> THEN { SubSeq(q, 1, Len(q) - 1) } ELSE {})

InputEvent ==
  /\ pc # "new"
  /\ \E v \in Edits(query) : query' = v
  /\ UNCHANGED <<data, pc, err, console, fetches, response, jsonCalls>>
  /\ UNCHANGED <<copyVars, redirectVars>>

\* fetch() rejects: no response was received (network error).
FetchRejects ==
  /\ pc = "fetching"
  /\ pc' = "rejected"
  /\ err' = "NetworkError"
  /\ UNCHANGED <<query, data, console, fetches, response, jsonCalls>>
  /\ UNCHANGED <<copyVars, redirectVars>>

\* Faulty variant of ResponseCallback: no test of response.ok.
ResponseCallbackUnchecked(ok) ==
  /\ pc = "fetching"
  /\ response' = IF ok THEN "ok" ELSE "notok"
  /\ pc' = "parsing"
  /\ jsonCalls' = jsonCalls + 1
  /\ UNCHANGED <<query, data, err, console, fetches>>
  /\ UNCHANGED <<copyVars, redirectVars>>

\* .then(response => ...): throws on a non-ok status, else starts reading
\* the body as JSON.
ResponseCallback(ok) ==
  /\ pc = "fetching"
  /\ response' = IF ok THEN "ok" ELSE "notok"
  /\ IF ~ok
       THEN /\ pc' = "rejected"
            /\ err' = "NotOk"
            /\ UNCHANGED jsonCalls
       ELSE /\ pc' = "parsing"
            /\ jsonCalls' = jsonCalls + 1
            /\ UNCHANGED err
  /\ UNCHANGED <<query, data, console, fetches>>
  /\ UNCHANGED <<copyVars, redirectVars>>

\* response.json() rejects: the body is not valid JSON.
JsonRejects ==
  /\ pc = "parsing"
  /\ pc' = "rejected"
  /\ err' = "SyntaxError"
  /\ UNCHANGED <<query, data, console, fetches, response, jsonCalls>>
  /\ UNCHANGED <<copyVars, redirectVars>>

\* .then(data => ...): logs and assigns the parsed array to the catalog.
DataCallback(d) ==
  /\ pc = "parsing"
  /\ console' = Append(console,
       [level |-> "log", msg |-> "Data loaded successfully:", arg |-> "data"])
  /\ data' = d
  /\ pc' = "ready"
  /\ UNCHANGED <<query, err, fetches, response, jsonCalls>>
  /\ UNCHANGED <<copyVars, redirectVars>>

\* Faulty variant of CatchCallback: fetches again after logging.
CatchCallbackRetries ==
  /\ pc = "rejected"
  /\ console' = Append(console,
       [level |-> "error", msg |-> "Error loading pages:", arg |-> err])
  /\ fetches' = fetches + 1
  /\ pc' = "fetching"
  /\ UNCHANGED <<query, data, err, response, jsonCalls>>
  /\ UNCHANGED <<copyVars, redirectVars>>

\* .catch(error => console.error(...)): the end of a rejected chain.
CatchCallback ==
  /\ pc = "rejected"
  /\ console' = Append(console,
       [level |-> "error", msg |-> "Error loading pages:", arg |-> err])
  /\ pc' = "failed"
  /\ UNCHANGED <<query, data, err, fetches, response, jsonCalls>>
  /\ UNCHANGED <<copyVars, redirectVars>>

SearchNext ==
  \/ Created
  \/ InputEvent
  \/ FetchRejects
  \/ \E ok \in BOOLEAN : ResponseCallback(ok)
  \/ JsonRejects
  \/ \E d \in Catalogs : DataCallback(d)
  \/ CatchCallback

----------------------------------------------------------------------------
(* js/codes.js: the click listener of #copyButton *)

CopyIdle ==
  /\ ops = <<>>
  /\ alerts = <<>>
  /\ copyConsole = <<>>
  /\ uncaught = <<>>

\* Faulty variant of Click: the success alert is raised in the listener,
\* not in the reaction to the write.
ClickAlertsAtOnce ==
  /\ Len(ops) < MaxClicks
  /\ hasClipboard
  /\ ops' = Append(ops, [write |-> "pending", reacted |-> FALSE])
  /\ alerts' = Append(alerts, [op |-> Len(ops) + 1, kind |-> "copied"])
  /\ UNCHANGED <<hasClipboard, copyConsole, uncaught>>
  /\ UNCHANGED <<searchVars, redirectVars>>

\* The listener: reads #myCode and calls navigator.clipboard.writeText.
\* Where navigator.clipboard is undefined (insecure context, API absent)
\* the member access throws a TypeError out of the listener, before any
\* promise exists for .then/.catch to hang on.
Click ==
  /\ Len(ops) < MaxClicks
  /\ IF hasClipboard
       THEN /\ ops' = Append(ops, [write |-> "pending", reacted |-> FALSE])
            /\ UNCHANGED uncaught
       ELSE /\ ops' = Append(ops, [write |-> "none", reacted |-> FALSE])
            /\ uncaught' = Append(uncaught, Len(ops) + 1)
  /\ UNCHANGED <<hasClipboard, alerts, copyConsole>>
  /\ UNCHANGED <<searchVars, redirectVars>>

\* The platform settles the promise writeText returned.
WriteSettles(i, outcome) ==
  /\ ops[i].write = "pending"
  /\ ops' = [ops EXCEPT ![i].write = outcome]
  /\ UNCHANGED <<hasClipboard, alerts, copyConsole, uncaught>>
  /\ UNCHANGED <<searchVars, redirectVars>>

\* .then(() => alert(...)): the reaction to a fulfilled write.
ThenCallback(i) ==
  /\ i \in 1..Len(ops)
  /\ ops[i].write = "fulfilled"
  /\ ~ops[i].reacted
  /\ alerts' = Append(alerts, [op |-> i, kind |-> "copied"])
  /\ ops' = [ops EXCEPT ![i].reacted = TRUE]
  /\ UNCHANGED <<hasClipboard, copyConsole, uncaught>>
  /\ UNCHANGED <<searchVars, redirectVars>>

\* Faulty variant of CopyCatchCallback: alerts without logging.
CopyCatchCallbackSilent(i) ==
  /\ i \in 1..Len(ops)
  /\ ops[i].write = "rejected"
  /\ ~ops[i].reacted
  /\ alerts' = Append(alerts, [op |-> i, kind |-> "manual"])
  /\ ops' = [ops EXCEPT ![i].reacted = TRUE]
  /\ UNCHANGED <<hasClipboard, copyConsole, uncaught>>
  /\ UNCHANGED <<searchVars, redirectVars>>

\* .catch(err => { console.error(...); alert(...) }): the reaction to a
\* rejected write.
CopyCatchCallback(i) ==
  /\ i \in 1..Len(ops)
  /\ ops[i].write = "rejected"
  /\ ~ops[i].reacted
  /\ copyConsole' = Append(copyConsole,
       [op |-> i, level |-> "error", msg |-> "Erreur lors de la copie : "])
  /\ alerts' = Append(alerts, [op |-> i, kind |-> "manual"])
  /\ ops' = [ops EXCEPT ![i].reacted = TRUE]
  /\ UNCHANGED <<hasClipboard, uncaught>>
  /\ UNCHANGED <<searchVars, redirectVars>>

CopyNext ==
  \/ Click
  \/ \E i \in 1..Len(ops) : WriteSettles(i, "fulfilled")
  \/ \E i \in 1..Len(ops) : WriteSettles(i, "rejected")
  \/ \E i \in 1..Len(ops) : ThenCallback(i)
  \/ \E i \in 1..Len(ops) : CopyCatchCallback(i)

----------------------------------------------------------------------------
(* .htaccess: the rewrite rule and the error document *)

Hosts == {"weldingengineer.org", "www.weldingengineer.org"}
Segments == {"annex", "404-not-found.html", "js"}
Paths == SeqsUpTo(Segments, MaxPathLen)
QueryStrings == {<<>>, <<"k=v">>}

Requests ==
  [https : BOOLEAN, host : Hosts, path : Paths, query : QueryStrings]

NoRequest == [https |-> FALSE, host |-> "", path |-> <<>>, query |-> <<>>]
NoResponse == [status |-> 0, location |-> <<>>]

\* The files the site serves (line 9 names the error page among them).
Existing == {<<>>, <<"js">>, <<"annex", "404-not-found.html">>}

\* %{REQUEST_URI}: the URL-path of the request, without the query string.
RECURSIVE Slashed(_)
Slashed(path) ==
  IF path = <<>> THEN <<>> ELSE <<"/", Head(path)>> \o Slashed(Tail(path))

RequestUri(r) == IF r.path = <<>> THEN <<"/">> ELSE Slashed(r.path)

\* RewriteCond %{HTTPS} off, and the pattern ^(.*)$ that matches any path.
RuleApplies(r) == ~r.https

\* https://%{HTTP_HOST}%{REQUEST_URI}
Substitution(r) == <<"https", "://", r.host>> \o RequestUri(r)

\* Faulty variant of RewriteRule: the query string is discarded (QSD).
RewriteRuleDropsQuery(r) ==
  [status |-> 301, location |-> Substitution(r)]

\* [R=301]: the substitution carries no "?", so mod_rewrite appends the
\* query string of the request to the redirect target.
RewriteRule(r) ==
  [status |-> 301,
   location |-> Substitution(r) \o
                  (IF r.query = <<>> THEN <<>> ELSE <<"?">> \o r.query)]

\* ErrorDocument 404 <full URL>: answered with a redirect to that URL.
ErrorDocument ==
  [status |-> 302,
   location |-> <<"https", "://", "www.weldingengineer.org",
                  "/", "annex", "/", "404-not-found.html">>]

ServerAnswer(r) ==
  IF RuleApplies(r) THEN RewriteRule(r)
  ELSE IF r.path \in Existing THEN [status |-> 200, location |-> <<>>]
  ELSE ErrorDocument

\* How a client reads a Location header back into a request.
Position(s, t) ==
  IF \E i \in 1..Len(s) : s[i] = t
    THEN CHOOSE i \in 1..Len(s) : s[i] = t /\ \A j \in 1..(i - 1) : s[j] # t
    ELSE Len(s) + 1

RECURSIVE Unslashed(_)
Unslashed(u) ==
  IF Len(u) < 2 THEN <<>> ELSE <<u[2]>> \o Unslashed(SubSeq(u, 3, Len(u)))

ParseUrl(loc) ==
  LET rest == SubSeq(loc, 4, Len(loc))
      q == Position(rest, "?")
  IN [https |-> loc[1] = "https",
      host |-> loc[3],
      path |-> Unslashed(SubSeq(rest, 1, q - 1)),
      query |-> SubSeq(rest, q + 1, Len(rest))]

RedirectIdle ==
  /\ req = NoRequest
  /\ resp = NoResponse
  /\ hops = 0

\* A client opens a URL of the site.
Navigate(r) ==
  /\ req' = r
  /\ resp' = NoResponse
  /\ hops' = 0
  /\ UNCHANGED <<searchVars, copyVars>>

\* The server evaluates the rules on the request.
Serve ==
  /\ req # NoRequest
  /\ resp = NoResponse
  /\ resp' = ServerAnswer(req)
  /\ UNCHANGED <<req, hops>>
  /\ UNCHANGED <<searchVars, copyVars>>

\* The client follows a redirect.
Follow ==
  /\ resp.status \in {301, 302}
  /\ hops < MaxHops
  /\ req' = ParseUrl(resp.location)
  /\ resp' = NoResponse
  /\ hops' = hops + 1
  /\ UNCHANGED <<searchVars, copyVars>>

RedirectNext ==
  \/ \E r \in Requests : Navigate(r)
  \/ Serve
  \/ Follow

----------------------------------------------------------------------------
(* Specifications *)

Init == SearchIdle /\ hasClipboard = TRUE /\ CopyIdle /\ RedirectIdle
Spec == Init /\ [][SearchNext]_vars

CopyInit == SearchIdle /\ hasClipboard \in BOOLEAN /\ CopyIdle /\ RedirectIdle
CopySpec == CopyInit /\ [][CopyNext]_vars
CopyFairSpec ==
  /\ CopySpec
  /\ \A i \in 1..MaxClicks :
       WF_vars(ThenCallback(i)) /\ WF_vars(CopyCatchCallback(i))

RedirectSpec == Init /\ [][RedirectNext]_vars

----------------------------------------------------------------------------
(* Properties of the search widget (under Spec) *)

\* Caseless matching as Unicode defines it: two characters match when their
\* case foldings are equal (A and a; the three sigmas).
CaseFold(c) ==
  CASE c = "A" -> "a"
    [] c \in {"SIGMA", "fsigma"} -> "sigma"
    [] OTHER -> c

ContainsIgnoringCase(s, t) ==
  \E k \in 0..(Len(s) - Len(t)) :
    \A i \in 1..Len(t) : CaseFold(s[k + i]) = CaseFold(t[i])

Satisfies(item, q) ==
  \/ ContainsIgnoringCase(item.title, q)
  \/ ContainsIgnoringCase(item.description, q)

Blank(q) == \A i \in 1..Len(q) : q[i] \in WhiteSpace

Returned(item) == \E i \in 1..Len(filteredResults) : filteredResults[i] = item

\* C1: for a query that is not blank, filteredResults is exactly the
\* subsequence of the catalog, in catalog order, of the entries whose title
\* or description contains the query when case is ignored.
C1_ExactlyTheCaselessMatches ==
  ~Blank(query) =>
    filteredResults = SelectSeq(data, LAMBDA item : Satisfies(item, query))

\* C2: a query that is empty or all white space yields the empty result,
\* whatever the catalog holds and wherever the load stands.
C2_BlankQueryYieldsNothing ==
  Blank(query) => filteredResults = <<>>

C2_Witness ==
  /\ pc = "ready"
  /\ query = <<" ">>
  /\ \E i \in 1..Len(data) : Includes(data[i].title, query)

\* C3: after a non-success response the body is never read, the catalog is
\* never assigned and stays empty, the chain ends in the logged error, and
\* every query finds nothing.
C3_NotOkNeverPopulates ==
  response = "notok" =>
    /\ jsonCalls = 0
    /\ data = <<>>
    /\ pc \in {"rejected", "failed"}
    /\ err = "NotOk"
    /\ pc = "failed" =>
         console = <<[level |-> "error", msg |-> "Error loading pages:",
                      arg |-> "NotOk"]>>
    /\ \A q \in Queries : Filter(data, q) = <<>>

C3_Witness ==
  /\ response = "notok"
  /\ pc = "failed"
  /\ ~Blank(query)

LoadingOrFailed == pc \in {"fetching", "parsing", "rejected", "failed"}

\* C7: while the load is pending or has failed the catalog is empty, every
\* query finds nothing and the input still takes keystrokes; one fetch is
\* issued per page view and never a second one.
C7_EmptyUntilLoaded ==
  /\ LoadingOrFailed =>
       /\ data = <<>>
       /\ \A q \in Queries : Filter(data, q) = <<>>
       /\ ENABLED InputEvent
  /\ fetches = (IF pc = "new" THEN 0 ELSE 1)

C7_Witness ==
  /\ pc = "failed"
  /\ err = "SyntaxError"
  /\ Len(query) = MaxQueryLen
  /\ ~Blank(query)

\* C9: filtering the filtered result again by the same query changes nothing.
C9_FilterIdempotent ==
  Filter(filteredResults, query) = filteredResults

C9_Witness ==
  /\ filteredResults # <<>>
  /\ Len(filteredResults) < Len(data)

Padded(q) == Trim(q) # q /\ Trim(q) # <<>>

HasLowered(item, q) ==
  \/ Includes(ToLowerCase(item.title), ToLowerCase(q))
  \/ Includes(ToLowerCase(item.description), ToLowerCase(q))

\* C10: white space around the text of a query takes part in the match: an
\* entry is returned only if its lower-cased title or description contains
\* the lower-cased query with its white space, so the result is a
\* subsequence of the result for the trimmed query, and an entry that
\* contains only the trimmed query is left out.
C10_PaddingIsMatched ==
  Padded(query) =>
    /\ \A i \in 1..Len(filteredResults) : HasLowered(filteredResults[i], query)
    /\ filteredResults =
         SelectSeq(Filter(data, Trim(query)), LAMBDA item : Returned(item))
    /\ \A i \in 1..Len(data) :
         ~HasLowered(data[i], query) => ~Returned(data[i])

C10_Witness ==
  /\ Padded(query)
  /\ filteredResults # <<>>
  /\ Len(filteredResults) < Len(Filter(data, Trim(query)))

----------------------------------------------------------------------------
(* Properties of the copy button (under CopySpec and CopyFairSpec) *)

AlertsOf(i) == { k \in 1..Len(alerts) : alerts[k].op = i }
LogsOf(i) == { k \in 1..Len(copyConsole) : copyConsole[k].op = i }
Settled(i) == ops[i].write \in {"fulfilled", "rejected"}

\* C4: a click in a runtime where the clipboard write is denied or not
\* available ends with the failure logged and the manual-copy alert shown.
C4_FailureAlwaysNotified ==
  \A i \in 1..Len(ops) :
    (ops[i].write = "none" \/ (ops[i].write = "rejected" /\ ops[i].reacted)) =>
      /\ \E k \in AlertsOf(i) : alerts[k].kind = "manual"
      /\ LogsOf(i) # {}

\* C5: a click whose write settles gets exactly one alert: the success
\* alert and no log entry when the write is fulfilled, the manual-copy alert
\* and exactly one log entry when it is rejected.
C5_ExactlyOneNotification ==
  \A i \in 1..Len(ops) :
    /\ Cardinality(AlertsOf(i)) <= 1
    /\ Cardinality(LogsOf(i)) <= 1
    /\ (Settled(i) /\ ~ops[i].reacted) =>
         /\ AlertsOf(i) = {}
         /\ ENABLED (ThenCallback(i) \/ CopyCatchCallback(i))
    /\ (ops[i].write = "fulfilled" /\ ops[i].reacted) =>
         /\ \E k \in AlertsOf(i) : alerts[k].kind = "copied"
         /\ LogsOf(i) = {}
    /\ (ops[i].write = "rejected" /\ ops[i].reacted) =>
         /\ \E k \in AlertsOf(i) : alerts[k].kind = "manual"
         /\ Cardinality(LogsOf(i)) = 1

C5_Witness ==
  \E i, j \in 1..Len(ops) :
    /\ ops[i].write = "fulfilled" /\ ops[i].reacted
    /\ ops[j].write = "rejected" /\ ops[j].reacted

\* C6: an alert of a copy operation is shown only once its write has
\* settled; an operation is never withdrawn and a settled write never
\* changes; and every operation whose write settles gets its alert.
C6_NotifiedOnlyAfterSettling ==
  /\ [](\A k \in 1..Len(alerts) : Settled(alerts[k].op))
  /\ [][\A i \in 1..Len(ops) :
          /\ i <= Len(ops')
          /\ Settled(i) => ops'[i].write = ops[i].write
          /\ ops[i].reacted => ops'[i].reacted]_vars
  /\ \A i \in 1..MaxClicks :
       (i <= Len(ops) /\ Settled(i)) ~> (AlertsOf(i) # {})

C6_Witness ==
  /\ Len(ops) >= 2
  /\ ops[1].write = "pending"
  /\ AlertsOf(2) # {}

----------------------------------------------------------------------------
(* Properties of the redirect rule (under RedirectSpec) *)

====
